---- MODULE Spec2Model ----
(***************************************************************************)
(* Model of the secret-scanning job server (app/main.py, app/queue_worker.py*)
(* and app/repo_utils.py): HTTP ingress with back-pressure, the task queue, *)
(* the dispatcher tasks, the execution of single, multi and local scans,    *)
(* the callback courier and the shutdown sequence.                          *)
(***************************************************************************)
EXTENDS Naturals, Integers, Sequences, FiniteSets, TLC

\* ---------------------------------------------------------------- bounds
\* Number of HTTP requests that arrive during one run of the ingress under load.
NumRequests == 3
\* Largest number of repositories in one POST /multi_scan.
MaxMultiLen == 2
\* Number of times the environment of one execution fails when it runs alone
\* (a download, an extraction, a pool, a POST or mkdtemp fails).
MaxFaults == 3
\* MAX_WORKERS (environment variable read once at start-up, 10 when unset):
\* the number of dispatcher tasks; the ingress limit is 2 * MAX_WORKERS.
MAX_WORKERS == 1

\* Number of rules in the catalogue.
NumRules == 2
\* Largest number of lines of a scanned file.
MaxLines == 4
\* Largest number of files of a scanned repository.
MaxFiles == 2
\* Largest number of characters of a serialized payload.
MaxText == 3
MaxUpdates == 2     \* update requests for the configuration files
FileLen == 2        \* lines of a complete configuration file
MaxCalls == 2       \* constructions of the classifier in one process
\* max_secrets of _analyze_file (50 in scan_directory_without_callback).
max_secrets == 2

\* ------------------------------------------------------ program constants
\* max_retries of send_callback.
max_retries == 3
\* Number of names "results, file_count = ..." of scan_repo_with_model unpacks into.
unpack_names == 2
\* Number of arguments scan_repo_with_model passes to filter_secrets_in_process.
call_args == 1
\* Number of parameters of filter_secrets_in_process.
filter_params == 2

Req == 1..NumRequests
Kinds == {"scan", "multi_scan", "local_scan"}
HubTypes == {"azure", "github"}
\* auth_methods of repo_utils, in the order they are tried.
auth_methods == <<"basic", "pat", "Negotiate">>

VARIABLES
  HubType,      \* os.getenv("HubType"), fixed at start-up
  budget,       \* what the environment may still do: requests that may arrive,
                \* failures of the executions' environment, termination signals
  phase,        \* "running" | "stopping" | "cleaning" | "pools_down" | "closed"
  task_queue,   \* asyncio.Queue: sequence of queue items (request ids)
  held,         \* items popped by a dispatcher whose execution is not yet spawned
  worker_tasks, \* number of dispatcher tasks still looping
  http,         \* per request: the HTTP handler (kind, items, position, response)
  job,          \* per request: the spawned execution and what it has done
  pipe,         \* the scan+classify stage in a worker process: the function
                \* called last, its arguments, what it returned and what it
                \* logged as errors
  drained,      \* while cleanup_executors waits in download_executor.shutdown:
                \* the executions whose job in the I/O pool has ended since
  settings      \* the configuration files of the Settings directory: what is
                \* on disk, the update request that is writing one of them,
                \* what the service found at start-up, and what the last
                \* scan has loaded

vars == <<HubType, budget, phase, task_queue, held, worker_tasks, http, job, pipe,
          drained, settings>>

\* ------------------------------------------------------------ ingress
\* The capacity test of scan, multi_scan and local_scan.
QueueFullStrict(qsize) == qsize > MAX_WORKERS * 2
QueueFull(qsize) == qsize >= MAX_WORKERS * 2

\* What the environment answers to a ref resolution.
ResolveEnvs == {"found", "missing_msg", "missing_nomsg"}

\* check_ref_and_resolve_azure: an ill-formed URL raises inside the try and is
\* returned as (False, None, message); a missing branch or tag has a message, a
\* commit that no auth method can read has none.
check_ref_and_resolve_azure(urlOk, env) ==
  IF ~urlOk THEN [tag |-> "ret", exists |-> FALSE, commit |-> "", message |-> "url"]
  ELSE IF env = "found" THEN [tag |-> "ret", exists |-> TRUE, commit |-> "c", message |-> ""]
  ELSE IF env = "missing_msg"
       THEN [tag |-> "ret", exists |-> FALSE, commit |-> "", message |-> "not found"]
  ELSE [tag |-> "ret", exists |-> FALSE, commit |-> "", message |-> ""]

\* What variant A answers to the request one auth method makes for a ref: 200
\* with the ref in the body, 200 with an empty body (count 0, no commitId),
\* 203, 401, 500, or no answer at all (requests raises).
AzureAnswers == {"s200_found", "s200_empty", "s203", "s401", "s500", "exc"}

\* The statuses the branch and tag cases read as success; the commit case
\* reads only 200.
AcceptedStatuses(ref_type) ==
  IF ref_type = "commit" THEN {"s200_found", "s200_empty"}
  ELSE {"s200_found", "s200_empty", "s203"}

\* check_ref_and_resolve_azure for a well-formed URL, from auth method i on,
\* `message` being the one left by the methods before: what it returns and
\* the number of methods it has tried. A status that is not accepted leaves a
\* message (none in the commit case) and goes on to the next method; an
\* exception is caught around the body of the loop and returned.
RECURSIVE azure_resolve_loop(_, _, _, _)
azure_resolve_loop(ref_type, answers, i, message) ==
  IF i > Len(auth_methods)
  THEN [tag |-> "ret", exists |-> FALSE, commit |-> "", message |-> message,
        tried |-> Len(auth_methods)]
  ELSE IF answers[i] = "exc"
  THEN [tag |-> "ret", exists |-> FALSE, commit |-> "", message |-> "exception",
        tried |-> i]
  ELSE IF answers[i] \notin AcceptedStatuses(ref_type)
  THEN azure_resolve_loop(ref_type, answers, i + 1,
                          IF ref_type = "commit" THEN ""
                          ELSE IF answers[i] = "s401" THEN "access denied"
                          ELSE "status")
  ELSE IF answers[i] = "s200_empty"
  THEN [tag |-> "ret", exists |-> FALSE, commit |-> "", message |-> "not found",
        tried |-> i]
  ELSE [tag |-> "ret", exists |-> TRUE, commit |-> "c", message |-> "", tried |-> i]

\* str.startswith, str.endswith and str.split()[0] on strings written as
\* sequences of characters.
startswith(str, prefix) ==
  Len(prefix) <= Len(str) /\ SubSeq(str, 1, Len(prefix)) = prefix
endswith(str, suffix) ==
  Len(suffix) <= Len(str) /\ SubSeq(str, Len(str) - Len(suffix) + 1, Len(str)) = suffix
RECURSIVE first_word(_)
first_word(str) ==
  IF str = <<>> \/ Head(str) = "\t" THEN <<>>
  ELSE <<Head(str)>> \o first_word(Tail(str))

\* What git ls-remote answers and what it is asked: whether the subprocess ran
\* and returned 0, the RefType and Ref of the request (in lower case; any text
\* is accepted by the request model), and the lines of the output, each an
\* object id, a tab and the name of a ref. "r" stands for the namespace of
\* the listing (refs/heads, refs/tags): "r/m" is the branch or tag m and
\* "r/x/m" the branch or tag x/m.
GitRefs == {<<>>, <<"a">>, <<"m">>}
GitEnvs ==
  [ok : BOOLEAN, ref_type : {"commit", "branch", "tag", "other"}, ref : GitRefs,
   lines : {<<>>, << <<"a", "b", "\t", "r", "/", "m">> >>}]

\* The same for remotes that also have a ref x/m, listed before m as git
\* ls-remote sorts its output by name.
GitLines ==
  {<<>>,
   << <<"a", "b", "\t", "r", "/", "m">> >>,
   << <<"c", "d", "\t", "r", "/", "x", "/", "m">> >>,
   << <<"c", "d", "\t", "r", "/", "x", "/", "m">>, <<"a", "b", "\t", "r", "/", "m">> >>}
GitListings ==
  [ok : BOOLEAN, ref_type : {"commit", "branch", "tag", "other"}, ref : GitRefs,
   lines : GitLines]

\* The lines from `k` on searched by the commit case: the first line that
\* starts with ref answers (True, ref).
RECURSIVE find_commit(_, _, _)
find_commit(lines, ref, k) ==
  IF k > Len(lines) THEN [tag |-> "ret", exists |-> FALSE, commit |-> <<>>, message |-> ""]
  ELSE IF startswith(lines[k], ref)
       THEN [tag |-> "ret", exists |-> TRUE, commit |-> ref, message |-> ""]
  ELSE find_commit(lines, ref, k + 1)

\* The lines from `k` on searched by the tag and branch cases: the first line
\* that ends with "/" + ref answers (True, its object id).
RECURSIVE find_ref(_, _, _)
find_ref(lines, ref, k) ==
  IF k > Len(lines) THEN [tag |-> "ret", exists |-> FALSE, commit |-> <<>>, message |-> ""]
  ELSE IF endswith(lines[k], <<"/">> \o ref)
       THEN [tag |-> "ret", exists |-> TRUE, commit |-> first_word(lines[k]), message |-> ""]
  ELSE find_ref(lines, ref, k + 1)

\* check_ref_and_resolve_git: message is "" on every path; an invalid RefType
\* raises inside the try and is returned as (False, None, "").
check_ref_and_resolve_git(env) ==
  IF env.ref_type = "other" \/ ~env.ok
  THEN [tag |-> "ret", exists |-> FALSE, commit |-> <<>>, message |-> ""]
  ELSE IF env.ref_type = "commit" THEN find_commit(env.lines, env.ref, 1)
  ELSE find_ref(env.lines, env.ref, 1)

\* The resolver a handler calls for the configured HubType.
check_ref_and_resolve(hub, urlOk, env) ==
  IF hub = "github" THEN check_ref_and_resolve_git(env)
  ELSE check_ref_and_resolve_azure(urlOk, env)

\* scan after the resolver has answered: the response status and whether the
\* job is put on the queue.
scan_enqueues_unresolved(res) ==
  IF res.tag = "raise" THEN [status |-> 500, put |-> FALSE]
  ELSE IF ~res.exists /\ res.message # "" THEN [status |-> 400, put |-> FALSE]
  ELSE [status |-> 200, put |-> TRUE]
scan_after_resolve(res) ==
  IF res.tag = "raise" THEN [status |-> 500, put |-> FALSE]
  ELSE IF ~res.exists THEN [status |-> 400, put |-> FALSE]
  ELSE [status |-> 200, put |-> TRUE]

\* multi_scan after every repository has been resolved: an exception of the
\* resolver counts as not resolved.
multi_scan_after_resolve(results) ==
  LET all_resolved == \A i \in DOMAIN results :
                         results[i].tag = "ret" /\ results[i].exists
  IN IF all_resolved THEN [status |-> 200, put |-> TRUE]
     ELSE [status |-> 400, put |-> FALSE]

\* zip(a, b): the pairs of the elements at the same position, as far as the
\* shorter sequence goes.
zip_reversed(a, b) ==
  LET n == IF Len(a) < Len(b) THEN Len(a) ELSE Len(b)
  IN [i \in 1..n |-> <<a[i], b[n + 1 - i]>>]
zip(a, b) ==
  LET n == IF Len(a) < Len(b) THEN Len(a) ELSE Len(b)
  IN [i \in 1..n |-> <<a[i], b[i]>>]

\* multi_scan, the validation loop: one MultiScanResponseItem per repository,
\* in request order. Its commit is the commit resolved, or the text
\* "not_found" (found = FALSE) when the resolver answered exists = False or
\* raised.
response_data(repositories, results) ==
  [i \in DOMAIN repositories |->
     [ProjectName |-> repositories[i],
      commit |-> IF results[i].tag = "ret" /\ results[i].exists
                 THEN [found |-> TRUE, id |-> results[i].commit]
                 ELSE [found |-> FALSE]]]

\* multi_scan after the validation loop: what it puts on the queue. The item
\* is built from zip(request.repositories, response_data).
multi_scan_puts(repositories, results) ==
  IF multi_scan_after_resolve(results).put
  THEN LET pairs == zip(repositories, response_data(repositories, results))
       IN << [kind |-> "multi_scan",
              multi_scan_items |-> [i \in DOMAIN pairs |-> pairs[i][1]],
              commits |-> [i \in DOMAIN pairs |-> pairs[i][2].commit.id]] >>
  ELSE <<>>

\* The status of the response of multi_scan. The 200 answer reads repo.RepoUrl,
\* the variable of the validation loop, which is unbound when the request
\* has no repository: the exception is answered 500, after the put.
multi_scan_status(repositories, results) ==
  IF multi_scan_after_resolve(results).put /\ repositories = <<>> THEN 500
  ELSE multi_scan_after_resolve(results).status

\* local_scan after the upload has been read.
local_scan_after_read(readOk) ==
  IF readOk THEN [status |-> 200, put |-> TRUE]
  ELSE [status |-> 500, put |-> FALSE]

NoHttp == [kind |-> "none", n |-> 0, st |-> "new", resp |-> 0,
           resolved |-> "unknown"]

\* ------------------------------------------------------------- fetch
\* What the hosting platform answers to a download: the response to each
\* request made (one per auth method on variant A) and whether the body is a
\* readable archive.
HttpAnswers == {"s200", "non200", "exc"}
FetchEnvs == [resp : [1..Len(auth_methods) -> HttpAnswers], zipOk : BOOLEAN]

Ret(path, msg) == [tag |-> "ret", path |-> path, msg |-> msg]
Raise(exc) == [tag |-> "raise", path |-> "", msg |-> exc]

\* download_repo_azure from auth method i on: requests.get is outside the try,
\* so a transport error escapes; an unreadable archive and a non-200 answer of
\* every method give ("", message).
RECURSIVE azure_auth_loop(_, _)
azure_auth_loop(i, env) ==
  IF i > Len(auth_methods) THEN Ret("", "download")
  ELSE IF env.resp[i] = "exc" THEN Raise("ConnectionError")
  ELSE IF env.resp[i] = "s200"
       THEN (IF env.zipOk THEN Ret("dir", "Success") ELSE Ret("", "extract"))
  ELSE azure_auth_loop(i + 1, env)

\* download_repo_azure: an ill-formed URL returns the bare value False.
download_repo_azure(urlOk, env) ==
  IF ~urlOk THEN [tag |-> "false", path |-> "", msg |-> ""]
  ELSE azure_auth_loop(1, env)

\* download_github_repo: every failure is caught and returned as ("", message).
download_github_repo(env) ==
  IF env.resp[1] = "non200" THEN Ret("", "HTTP")
  ELSE IF env.resp[1] = "exc" \/ ~env.zipOk THEN Ret("", "General")
  ELSE Ret("dir", "Success")

\* download_repo: unpacks the variant's result into (extracted_path, status).
download_repo(hub, urlOk, env) ==
  IF hub = "azure"
  THEN LET r == download_repo_azure(urlOk, env)
       IN IF r.tag = "false" THEN Raise("TypeError") ELSE r
  ELSE IF hub = "github" THEN download_github_repo(env)
  ELSE Raise("UnboundLocalError")

\* extract_zip_file (local scan): an unreadable archive raises.
extract_zip_file(zipOk) ==
  IF zipOk THEN Ret("dir", "") ELSE Raise("BadZipFile")

\* ------------------------------------------------------------ courier
\* What one POST of send_callback can meet: status 200, another 2xx status, an
\* error status, one of the exception types send_callback names before its
\* json clause (timeout, connector, OS, payload, disconnect), any other
\* exception.
PostOutcomes == {"s200", "s2xx", "sErr", "listed_exc", "other_exc"}

\* One pass of the retry loop of send_callback. Only status 200 returns; a
\* status other than 200 and a listed exception fall through to the retry; any
\* other exception reaches the clause "except json.JSONEncodeError", whose
\* evaluation raises AttributeError out of send_callback.
PostEffect(outcome) ==
  IF outcome = "s200" THEN "return"
  ELSE IF outcome \in {"s2xx", "sErr", "listed_exc"} THEN "retry"
  ELSE "raise"

\* ---------------------------------------------------------- execution
\* The execution spawned for a queue item.
\*   pc      "none" | "spawned" (task created, not yet run) | "fetch" | "scan" |
\*           "post" | "delete" | "done" | "failed" (ended by an exception) |
\*           "cancelled"
\*   idx     the item being processed (1 for a single or local scan)
\*   ctx     the call site of the running send_callback: "completed" (the
\*           report), "fetcherr" (the status message of a failed fetch),
\*           "except" (the handler of the process_* function), "outer" (the
\*           handler of process_multi_scan_sequence)
\*   exc     an exception is propagating while the finally block runs
\*   posts   the POSTs made so far by the running send_callback
\*   fetch   how the fetch of the current item ended
\*   scanned the scan+classify stage of the current item was submitted
\*   items   per item: the scratch directory ("none" | "exists" | "removed")
\*           and the call sites that have sent a callback for it
NoItem == [dir |-> "none", cbs |-> {}]
NoJob == [pc |-> "none", idx |-> 0, ctx |-> "none", exc |-> FALSE, posts |-> 0,
          fetch |-> "none", scanned |-> FALSE, items |-> <<>>]

Spawned(n) == [NoJob EXCEPT !.pc = "spawned", !.idx = 1,
                            !.items = [i \in 1..n |-> NoItem]]

\* send_callback up to its first POST.
BeginCallback(s, ctx) ==
  [s EXCEPT !.pc = "post", !.ctx = ctx, !.posts = 1,
            !.items[s.idx].cbs = @ \cup {ctx}]

\* The handler "except Exception as e": send_error_callback(CallbackUrl, str(e)).
Except(s) == BeginCallback(s, "except")

\* tempfile.mkdtemp and the first submission to the I/O pool. mkdtemp is outside
\* the try of the three process_* functions; process_multi_scan_sequence
\* catches what process_request_sequential lets through.
StartItem(s, kind, mk, up) ==
  IF mk = "raise"
  THEN IF kind = "multi_scan" THEN BeginCallback(s, "outer")
       ELSE [s EXCEPT !.pc = "failed"]
  ELSE LET s1 == [s EXCEPT !.items[s.idx].dir = "exists"]
       IN IF mk = "write_raise" THEN Except(s1)
          ELSE IF up THEN [s1 EXCEPT !.pc = "fetch"]
          ELSE Except(s1)

\* process_multi_scan_sequence: the next iteration of its loop.
NextItem(s, n, mk, up) ==
  IF s.idx = n THEN [s EXCEPT !.pc = "done", !.ctx = "none", !.posts = 0]
  ELSE StartItem([s EXCEPT !.idx = @ + 1, !.ctx = "none", !.exc = FALSE,
                           !.posts = 0, !.fetch = "none", !.scanned = FALSE],
                 "multi_scan", mk, up)

\* The end of process_request_async, process_request_sequential or
\* process_local_scan_async, with or without an exception propagating.
EndItem(s, kind, n, exc, mk, up) ==
  IF kind = "multi_scan"
  THEN IF exc THEN BeginCallback(s, "outer")
       ELSE NextItem(s, n, mk, up)
  ELSE [s EXCEPT !.pc = IF exc THEN "failed" ELSE "done", !.ctx = "none",
                 !.posts = 0]

\* The finally block: delete_dir is submitted to the I/O pool and awaited; the
\* submission raises RuntimeError once the pool is shut down.
FinallyDetached(s, kind, n, exc, mk, up) ==
  EndItem(s, kind, n, exc, mk, up)
Finally(s, kind, n, exc, mk, up) ==
  IF up THEN [s EXCEPT !.pc = "delete", !.ctx = "none", !.exc = exc, !.posts = 0]
  ELSE EndItem(s, kind, n, TRUE, mk, up)

\* What follows a send_callback that has returned or raised.
AfterCallback(s, raised, kind, n, mk, up) ==
  IF s.ctx \in {"completed", "fetcherr"}
  THEN IF raised THEN Except(s)
       ELSE Finally(s, kind, n, FALSE, mk, up)
  ELSE IF s.ctx = "except" THEN Finally(s, kind, n, raised, mk, up)
  ELSE NextItem(s, n, mk, up)

\* send_callback when the POST in flight ends with `outcome`.
send_callback(s, outcome, kind, n, mk, up) ==
  LET attempt == s.posts - 1
      effect == PostEffect(outcome)
  IN IF effect = "return"
     THEN AfterCallback(s, FALSE, kind, n, mk, up)
     ELSE IF effect = "raise"
     THEN AfterCallback(s, TRUE, kind, n, mk, up)
     ELSE IF attempt < max_retries - 1
     THEN [s EXCEPT !.posts = @ + 1]
     ELSE AfterCallback(s, FALSE, kind, n, mk, up)

\* process_request_async / process_request_sequential / process_local_scan_async
\* when the download (or, for a local scan, the extraction) has ended.
AfterFetch(s, res, up) ==
  LET s1 == [s EXCEPT !.fetch = IF res.tag = "raise" THEN "raise"
                                ELSE IF res.path = "" THEN "empty" ELSE "path"]
  IN IF res.tag = "raise" THEN Except(s1)
     ELSE IF res.path = "" THEN BeginCallback(s1, "fetcherr")
     ELSE IF up THEN [s1 EXCEPT !.pc = "scan", !.scanned = TRUE]
     ELSE Except(s1)

\* What the CPU pool hands back for scan_repo_with_model: its results (the
\* findings, or the process_error finding it builds from any exception), or an
\* exception of the pool itself.
ScanOutcomes == {"findings", "process_error", "pool_broken"}
AfterScan(s, out) ==
  IF out = "pool_broken" THEN Except(s)
  ELSE BeginCallback(s, "completed")

\* delete_dir has run in the I/O pool.
AfterDelete(s, kind, n, mk, up) ==
  EndItem([s EXCEPT !.items[s.idx].dir = "removed"], kind, n, s.exc, mk, up)

\* The task of an execution is cancelled: CancelledError is raised at its
\* await and passes "except Exception". Raised in the try block or in the
\* handler of a process_* function, it reaches the finally block, whose
\* submission to the I/O pool that is shut down raises RuntimeError in its
\* place: the handler of process_multi_scan_sequence catches that one. Raised
\* in the send_error_callback of that handler, it is dropped by the bare
\* "except: pass" and the loop goes on. Raised in the await of the finally
\* block (delete_dir has run: the pool was shut down with wait=True), it ends
\* the task.
Cancelled(s, kind, n, mk) ==
  IF s.pc \in {"none", "done", "failed", "cancelled"} THEN s
  ELSE IF s.pc = "spawned" THEN [s EXCEPT !.pc = "cancelled"]
  ELSE IF s.pc = "delete"
  THEN [s EXCEPT !.pc = "cancelled", !.items[s.idx].dir = "removed"]
  ELSE IF kind # "multi_scan"
  THEN [s EXCEPT !.pc = "cancelled", !.ctx = "none", !.posts = 0]
  ELSE IF s.pc = "post" /\ s.ctx = "outer" THEN NextItem(s, n, mk, FALSE)
  ELSE BeginCallback(s, "outer")

MkOutcomes(kind) ==
  IF kind = "local_scan" THEN {"ok", "raise", "write_raise"} ELSE {"ok", "raise"}

\* --------------------------------------------------------- file scanner
\* The rule catalogue in its order; the Type of a finding is the message of
\* its rule. Every pattern of the catalogue compiles.
Rules == 1..NumRules

\* A line of a scanned file: whether it is longer than max_line_length, the
\* rules whose pattern matches it, and whether its text contains one of the
\* false-positive substrings. A line is matched by no rule, by one rule or
\* by every rule.
FileLines ==
  {[long |-> TRUE, hits |-> h, fp |-> FALSE] : h \in {{}, Rules}}
    \cup {[long |-> FALSE, hits |-> h, fp |-> FALSE] :
            h \in {{}, Rules} \cup {{r} : r \in Rules}}
    \cup {[long |-> FALSE, hits |-> Rules, fp |-> TRUE]}

RECURSIVE SeqsUpTo(_, _)
SeqsUpTo(S, n) ==
  IF n = 0 THEN {<<>>}
  ELSE LET shorter == SeqsUpTo(S, n - 1)
       IN shorter \cup {Append(q, x) : q \in {t \in shorter : Len(t) = n - 1}, x \in S}

\* The contents a file can have.
Files == SeqsUpTo(FileLines, MaxLines)

\* str.replace(old, new) on strings written as sequences of characters:
\* occurrences are replaced from the left and do not overlap.
RECURSIVE str_replace(_, _, _)
str_replace(str, old, new) ==
  IF Len(str) < Len(old) \/ Len(old) = 0 THEN str
  ELSE IF SubSeq(str, 1, Len(old)) = old
       THEN new \o str_replace(SubSeq(str, Len(old) + 1, Len(str)), old, new)
  ELSE <<Head(str)>> \o str_replace(Tail(str), old, new)

\* The "path" of a finding: file_path.replace(target_dir, "").replace("\\", "/").
finding_path(file_path, target_dir) ==
  str_replace(str_replace(file_path, target_dir, <<>>), <<"\\">>, <<"/">>)

\* hashlib.md5 of a text: a value determined by the text.
md5(text) == [md5 |-> text]

\* The sentinel of a line that is not scanned.
TooLongLine(path, line_num) ==
  [path |-> path, line |-> line_num, Type |-> "Too Long Line",
   severity |-> "Potential", secret |-> [kind |-> "long", of |-> md5(<<line_num>>)]]

\* rule.get("message", "Unknown") of a rule of the catalogue.
message(rule) == ToString(rule)

\* The candidate recorded for a match of `rule` on a line.
Match(path, line_num, rule) ==
  [path |-> path, line |-> line_num, Type |-> message(rule), severity |-> "",
   confidence |-> 100,
   secret |-> [kind |-> "match", of |-> <<line_num, rule>>]]

\* The sentinel that replaces the output of a file.
TooManySecrets(path, all_secrets) ==
  [path |-> path, line |-> 0, Type |-> "Too Many Secrets", severity |-> "High",
   secret |-> [kind |-> "many", of |-> md5([i \in DOMAIN all_secrets |-> all_secrets[i].secret])]]

\* The rules tried on one line, in catalogue order from rule `rule` on: every
\* rule that matches appends a candidate (the loop has no break), unless the
\* line is a false positive.
RECURSIVE match_rules(_, _, _, _)
match_rules(path, line_num, line, rule) ==
  IF rule > NumRules THEN <<>>
  ELSE (IF rule \in line.hits /\ ~line.fp THEN <<Match(path, line_num, rule)>> ELSE <<>>)
         \o match_rules(path, line_num, line, rule + 1)

\* The catalogues load_rules can return (the patterns are not compiled when
\* they are loaded): `bad` holds the rules whose pattern does not compile.
Catalogues == {[bad |-> {}]} \cup {[bad |-> {r}] : r \in Rules}

\* The loop of _analyze_file over the lines from line_num on: `results` (the
\* sentinels of the long lines), `all_secrets`, and whether re.search raised.
\* Every rule is tried on a line that is scanned, so re.search raises on the
\* first such line when a pattern does not compile, and the loop ends there.
RECURSIVE analyze_lines(_, _, _, _)
analyze_lines(path, rules, lines, line_num) ==
  IF line_num > Len(lines)
  THEN [results |-> <<>>, all_secrets |-> <<>>, raised |-> FALSE]
  ELSE IF lines[line_num].long
  THEN [analyze_lines(path, rules, lines, line_num + 1)
          EXCEPT !.results = <<TooLongLine(path, line_num)>> \o @]
  ELSE IF rules.bad # {}
  THEN [results |-> <<>>, all_secrets |-> <<>>, raised |-> TRUE]
  ELSE [analyze_lines(path, rules, lines, line_num + 1)
          EXCEPT !.all_secrets = match_rules(path, line_num, lines[line_num], 1) \o @]

\* The test that replaces the output of a file by the sentinel.
ExceedsAtCap(secrets_found) == secrets_found >= max_secrets
Exceeds(secrets_found) == secrets_found > max_secrets

\* _analyze_file (search_secrets): a file that cannot be opened gives no
\* result; "except Exception" returns the `results` collected before the
\* exception.
_analyze_file(file_path, rules, target_dir, readable, lines) ==
  IF ~readable THEN <<>>
  ELSE LET path == finding_path(file_path, target_dir)
           found == analyze_lines(path, rules, lines, 1)
       IN IF found.raised THEN found.results
          ELSE IF Exceeds(Len(found.all_secrets))
          THEN <<TooManySecrets(path, found.all_secrets)>>
          ELSE found.results \o found.all_secrets

\* The scratch directory of an execution and the file of the repository during
\* the directory walk: os.path.join(root, file) with the separator of the
\* platform.
ScanPaths ==
  {[target_dir |-> <<sep, "t", "m", "p">>,
    file_path |-> <<sep, "t", "m", "p", sep>> \o rel] :
     sep \in {"/", "\\"}, rel \in {<<"a">>}}

\* ------------------------------------------------------------ archives
\* The name of a member of a zip archive: its components, each a stem and an
\* extension. "/a" has a first component that is empty.
Comp(stem, ext) == [stem |-> stem, ext |-> ext]
MemberNames ==
  { <<Comp("a", ".py")>>, <<Comp("d", ""), Comp("a", ".py")>>,
    <<Comp("..", ""), Comp("a", ".py")>>, <<Comp("", ""), Comp("a", ".py")>>,
    <<Comp("d", ""), Comp("x", "")>>, <<Comp("b", ".e")>> }

\* The exclusion sets repo_utils loads at import.
EXCLUDED_FILES == {Comp("x", "")}
EXCLUDED_EXTENSIONS == {".e"}

\* ZipFile.extractall, which download_repo_azure, download_github_repo and
\* extract_zip_file call: each member is written under the extraction root at
\* its name without the empty, "." and ".." components. No member is left out.
RECURSIVE without_invalid_parts(_)
without_invalid_parts(name) ==
  IF name = <<>> THEN <<>>
  ELSE (IF Head(name).stem \in {"", ".", ".."} /\ Head(name).ext = ""
        THEN <<>> ELSE <<Head(name)>>)
         \o without_invalid_parts(Tail(name))
extractall(archive) == {without_invalid_parts(name) : name \in archive}

\* ----------------------------------------------------------- classifier
\* item[key] = value on a dict: the key is added when the item has none.
SetItem(item, key, value) ==
  [k \in DOMAIN item \cup {key} |-> IF k = key THEN value ELSE item[k]]

\* Confidences are written in thousandths as the model gives them and in
\* hundredths once rounded. round(x, 2): to the nearest hundredth, a tie to
\* the even one.
round2(x) ==
  LET q == x \div 10
      r == x % 10
  IN IF r < 5 THEN q
     ELSE IF r > 5 THEN q + 1
     ELSE IF q % 2 = 0 THEN q ELSE q + 1

\* The final confidences the model can give to an item.
Confidences == {650, 703, 900}

\* What the classification loop of filter_secrets assigns to an item: the two
\* sentinels get confidence 0.50 and Potential; any other item gets its final
\* confidence rounded, and High when the final confidence is above 0.7,
\* Potential otherwise. The severity the item had is not read.
classify(item, final_confidence) ==
  IF item.secret.kind \in {"long", "many"}
  THEN SetItem(SetItem(item, "confidence", 50), "severity", "Potential")
  ELSE SetItem(SetItem(item, "confidence", round2(final_confidence)), "severity",
               IF final_confidence > 700 THEN "High" ELSE "Potential")

\* The fallback of both exception handlers: High where severity is empty.
fallback_keeps_empty(item) == item
fallback(item) ==
  IF item.severity = "" THEN [item EXCEPT !.severity = "High"] ELSE item

\* What classifying can meet: the constructor of SecretClassifier raises, the
\* vectorizer or the model raises before the loop, the loop raises at item
\* `at`, or nothing raises; `conf` holds the final confidence of each item
\* whose confidence is read: the items that are not sentinels, up to the one
\* that raises.
ClassifierEnvs(secrets) ==
  LET Read(n) == {i \in 1..n : secrets[i].secret.kind = "match"}
  IN [fail : {"construct", "predict"}, at : {1}, conf : {<<>>}]
       \cup [fail : {"none"}, at : {1}, conf : [Read(Len(secrets)) -> Confidences]]
       \cup {[fail |-> "loop", at |-> k, conf |-> c] :
               <<k, c>> \in UNION {{k} \X [Read(k - 1) -> Confidences] :
                                     k \in DOMAIN secrets}}

\* The final confidence of item i; the one of a sentinel is not read.
final_confidence_of(secrets, env, i) ==
  IF i \in DOMAIN env.conf THEN env.conf[i] ELSE 0

\* SecretClassifier.filter_secrets: the list is updated in place, so the items
\* before the one that raised keep what the loop gave them; the handler sets
\* confidence 1.00 on every item.
filter_secrets(ProjectName, secrets, env) ==
  IF secrets = <<>> THEN secrets
  ELSE IF env.fail = "predict"
       THEN [i \in DOMAIN secrets |-> fallback(SetItem(secrets[i], "confidence", 100))]
  ELSE IF env.fail = "loop"
       THEN [i \in DOMAIN secrets |->
               fallback(SetItem(IF i < env.at
                                THEN classify(secrets[i],
                                              final_confidence_of(secrets, env, i))
                                ELSE secrets[i],
                                "confidence", 100))]
  ELSE [i \in DOMAIN secrets |->
          classify(secrets[i], final_confidence_of(secrets, env, i))]

\* filter_secrets_in_process(ProjectName, secrets_list): its own handler leaves
\* the confidence as it is.
filter_secrets_in_process(ProjectName, secrets_list, env) ==
  IF env.fail = "construct"
  THEN [i \in DOMAIN secrets_list |-> fallback(secrets_list[i])]
  ELSE filter_secrets(ProjectName, secrets_list, env)

\* The errors the two handlers log during a classification.
classifier_log(secrets, env) ==
  IF env.fail = "construct" THEN <<"process">>
  ELSE IF secrets # <<>> /\ env.fail \in {"predict", "loop"} THEN <<"classification">>
  ELSE <<>>

\* Every list a classification of `secrets` can return, with what is logged.
Classified(secrets) ==
  {[out |-> filter_secrets_in_process("p", secrets, env),
    log |-> classifier_log(secrets, env)] : env \in ClassifierEnvs(secrets)}

\* ------------------------------------------------- scan+classify process
\* A file of a repository during the directory walk: whether its name or
\* extension is on an exclusion list, and its lines.
RepoFiles ==
  [excluded : BOOLEAN,
   lines : {<<>>, <<[long |-> FALSE, hits |-> {1}, fp |-> FALSE]>>,
            <<[long |-> TRUE, hits |-> {}, fp |-> FALSE]>>}]

\* The repositories a scan can be given.
Repos == SeqsUpTo(RepoFiles, MaxFiles)

\* scan_directory_without_callback over the files from file `k` on: every file
\* is counted, the files that are not excluded are analysed.
RECURSIVE scan_directory_without_callback(_, _)
scan_directory_without_callback(repo, k) ==
  IF k > Len(repo) THEN <<>>
  ELSE (IF repo[k].excluded THEN <<>>
        ELSE _analyze_file(<<"/", "t", "/", "f">>, [bad |-> {}], <<"/", "t">>, TRUE,
                           repo[k].lines))
         \o scan_directory_without_callback(repo, k + 1)

\* scan_repo_without_callback: loading the rules raises when a settings file
\* is missing; otherwise the tuple (all_results, files_excluded,
\* all_files_count, skipped_files, detected_languages, detected_frameworks).
scan_repo_without_callback(repo, settingsOk) ==
  IF ~settingsOk THEN Raise("settings")
  ELSE [tag |-> "ret",
        val |-> <<scan_directory_without_callback(repo, 1),
                  Cardinality({k \in DOMAIN repo : repo[k].excluded}),
                  Len(repo), 0, {}, {}>>]

\* The finding scan_repo_with_model returns for any exception.
process_error(e) ==
  [error |-> e, path |-> "process_error", severity |-> "High", Type |-> "Process Error"]

\* scan_repo_with_model: "results, file_count = ..." unpacks the returned tuple
\* into two names, then filter_secrets_in_process is called with the results
\* alone; a tuple of another length raises ValueError and a call with the wrong
\* number of arguments raises TypeError, both inside the try.
scan_repo_reraises(repo, env) ==
  LET ret == scan_repo_without_callback(repo, env.settingsOk)
  IN IF ret.tag = "raise" THEN [tag |-> "raise", exc |-> ret.msg]
     ELSE IF Len(ret.val) # unpack_names THEN [tag |-> "raise", exc |-> "ValueError"]
     ELSE IF call_args # filter_params THEN [tag |-> "raise", exc |-> "TypeError"]
     ELSE [tag |-> "ret",
           results |-> filter_secrets_in_process("p", ret.val[1], env.clf),
           file_count |-> ret.val[2]]
scan_repo_with_model(repo, env) ==
  LET ret == scan_repo_without_callback(repo, env.settingsOk)
  IN IF ret.tag = "raise"
     THEN [tag |-> "ret", results |-> <<process_error(ret.msg)>>, file_count |-> 0]
     ELSE IF Len(ret.val) # unpack_names
     THEN [tag |-> "ret", results |-> <<process_error("ValueError")>>, file_count |-> 0]
     ELSE IF call_args # filter_params
     THEN [tag |-> "ret", results |-> <<process_error("TypeError")>>, file_count |-> 0]
     ELSE [tag |-> "ret",
           results |-> filter_secrets_in_process("p", ret.val[1], env.clf),
           file_count |-> ret.val[2]]

\* The payload of the "completed" callback.
completed_payload(commit, results, all_files_count) ==
  [Status |-> "completed", RepoCommit |-> commit, Results |-> results,
   FilesScanned |-> all_files_count]

\* ----------------------------------------------------- callback envelope
\* Texts are sequences of code points, byte strings sequences of 0..255.
\* str.encode('utf-8') and bytes.decode('utf-8').
utf8_char(cp) ==
  IF cp < 128 THEN <<cp>>
  ELSE IF cp < 2048 THEN <<192 + (cp \div 64), 128 + (cp % 64)>>
  ELSE <<224 + (cp \div 4096), 128 + ((cp \div 64) % 64), 128 + (cp % 64)>>
RECURSIVE utf8_encode(_)
utf8_encode(text) ==
  IF text = <<>> THEN <<>> ELSE utf8_char(Head(text)) \o utf8_encode(Tail(text))

\* gzip.compress and gzip.decompress as a lossless coding of the same shape:
\* the two magic bytes, the body as runs (length, byte), and the length of
\* the input as trailer. decompress raises on any other shape.
RECURSIVE run_length(_, _)
run_length(bytes, b) ==
  IF bytes = <<>> \/ Head(bytes) # b THEN 0 ELSE 1 + run_length(Tail(bytes), b)
RECURSIVE deflate(_)
deflate(bytes) ==
  IF bytes = <<>> THEN <<>>
  ELSE LET n == run_length(bytes, Head(bytes))
       IN <<n, Head(bytes)>> \o deflate(SubSeq(bytes, n + 1, Len(bytes)))
RECURSIVE inflate(_)
inflate(body) ==
  IF Len(body) < 2 THEN <<>>
  ELSE [i \in 1..body[1] |-> body[2]] \o inflate(SubSeq(body, 3, Len(body)))
gzip_compress(bytes) == <<31, 139>> \o deflate(bytes) \o <<Len(bytes) % 256>>
gzip_decompress(data) ==
  IF Len(data) < 3 \/ SubSeq(data, 1, 2) # <<31, 139>> \/ Len(data) % 2 = 0
  THEN <<"BadGzipFile">>
  ELSE LET bytes == inflate(SubSeq(data, 3, Len(data) - 1))
       IN IF Len(bytes) % 256 = data[Len(data)] THEN bytes ELSE <<"BadGzipFile">>

\* base64.b64encode: three bytes give four digits of 0..63; a last group of
\* one or two bytes is padded with "=" (written 64).
RECURSIVE b64encode(_)
b64encode(bytes) ==
  IF bytes = <<>> THEN <<>>
  ELSE IF Len(bytes) = 1
       THEN <<bytes[1] \div 4, (bytes[1] % 4) * 16, 64, 64>>
  ELSE IF Len(bytes) = 2
       THEN <<bytes[1] \div 4, (bytes[1] % 4) * 16 + (bytes[2] \div 16),
              (bytes[2] % 16) * 4, 64>>
  ELSE <<bytes[1] \div 4, (bytes[1] % 4) * 16 + (bytes[2] \div 16),
         (bytes[2] % 16) * 4 + (bytes[3] \div 64), bytes[3] % 64>>
         \o b64encode(SubSeq(bytes, 4, Len(bytes)))
\* base64.b64decode, as the receiver of a callback applies it.
RECURSIVE b64decode(_)
b64decode(digits) ==
  IF Len(digits) < 4 THEN <<>>
  ELSE LET d == digits
           b1 == d[1] * 4 + (d[2] \div 16)
           b2 == (d[2] % 16) * 16 + (d[3] \div 4)
           b3 == (d[3] % 4) * 64 + d[4]
       IN (IF d[3] = 64 THEN <<b1>>
           ELSE IF d[4] = 64 THEN <<b1, b2>>
           ELSE <<b1, b2, b3>>)
            \o b64decode(SubSeq(digits, 5, Len(digits)))

\* original_size of the envelope.
original_size_in_chars(payload_json) == Len(payload_json)
original_size(payload_json) == Len(utf8_encode(payload_json))

\* The envelope send_callback builds around a serialized payload.
compressed_payload(payload_json) ==
  LET compressed_data == gzip_compress(utf8_encode(payload_json))
  IN [compressed |-> TRUE, data |-> b64encode(compressed_data),
      original_size |-> original_size(payload_json),
      compressed_size |-> Len(compressed_data)]

\* The serialized payloads: texts of one-, two- and three-byte characters.
PayloadTexts == SeqsUpTo({65, 233, 8364}, MaxText)

\* ------------------------------------------------------------- state
\* The runs explored. On variant A: two concurrent requests with one failure
\* of the environment; two concurrent requests with a termination signal; one
\* request with MaxFaults failures and a termination signal. On variant B: one
\* request with one failure and a termination signal.
Budgets ==
  { [hub |-> "azure",  arrivals |-> 2, faults |-> 1, signals |-> 0],
    [hub |-> "azure",  arrivals |-> 2, faults |-> 0, signals |-> 1],
    [hub |-> "azure",  arrivals |-> 1, faults |-> MaxFaults, signals |-> 1],
    [hub |-> "github", arrivals |-> 1, faults |-> 1, signals |-> 1] }

\* The configuration files of the Settings directory that have an update
\* endpoint: RULES_PATH, EXCLUDED_FILES_PATH, EXCLUDED_EXTENSIONS_PATH and
\* FP_FILE_PATH.
ConfigFiles ==
  {"rules.yml", "excluded_files.yml", "excluded_extensions.yml", "false-positive.yml"}

\* What is on disk for one file: the lines present of the version written by
\* the version-th accepted update (version 0 is the file found at start-up).
\* A file is complete when all its lines are there and empty when none is.
Complete(content) == content.lines = FileLen

\* The files as the service finds them when it starts; no update is running
\* and no scan has loaded them yet.
StartupDisk == [f \in ConfigFiles |-> [version |-> 0, lines |-> FileLen]]
NoWriter == [pc |-> "idle", file |-> "", version |-> 0]
StartupSettings ==
  [disk |-> StartupDisk, writer |-> NoWriter, updates |-> 0,
   loaded |-> [any |-> FALSE, tick |-> 0, read |-> StartupDisk]]

\* No function of the scan+classify stage has been called.
NoCall == [op |-> "none", arg |-> <<>>, out |-> <<>>, log |-> <<>>]

Start(b) ==
  /\ HubType = b.hub
  /\ budget = [arrivals |-> b.arrivals, faults |-> b.faults, signals |-> b.signals]
  /\ phase = "running"
  /\ task_queue = <<>>
  /\ held = <<>>
  /\ worker_tasks = MAX_WORKERS
  /\ http = [r \in Req |-> NoHttp]
  /\ job = [r \in Req |-> NoJob]
  /\ pipe = NoCall
  /\ drained = {}
  /\ settings = StartupSettings

Init == \E b \in Budgets : Start(b)

\* The ingress under load: NumRequests requests, either variant.
InitIngress ==
  \E hub \in HubTypes :
    Start([hub |-> hub, arrivals |-> NumRequests, faults |-> 0, signals |-> 0])

\* The pools accept submissions until cleanup_executors has shut them down.
PoolsUp == phase \in {"running", "stopping"}

\* download_executor.shutdown(wait=True) is a blocking call made on the thread
\* of the event loop: until it returns no coroutine runs.
LoopRuns == phase # "cleaning"

\* The executions that have a job running in a thread of the I/O pool (a
\* download or an extraction, delete_dir).
InIOPool == {r \in Req : job[r].pc \in {"fetch", "delete"}}

\* Request r is the next to arrive: requests are numbered in arrival order.
Arrives(r) ==
  /\ phase = "running"
  /\ budget.arrivals > 0
  /\ http[r].st = "new"
  /\ \A q \in Req : q < r => http[q].st # "new"
  /\ budget' = [budget EXCEPT !.arrivals = @ - 1]

Answer(r, kind, n, status, resolved) ==
  [http EXCEPT ![r] = [kind |-> kind, n |-> n, st |-> "answered",
                       resp |-> status, resolved |-> resolved]]

Handling(r, kind, n) ==
  [http EXCEPT ![r] = [kind |-> kind, n |-> n, st |-> "handling",
                       resp |-> 0, resolved |-> "unknown"]]

\* add_to_queue_background, add_multi_scan_to_queue and the put of local_scan,
\* followed by the 200 answer.
Accept(r, resolved) ==
  /\ task_queue' = Append(task_queue, r)
  /\ http' = [http EXCEPT ![r].st = "answered", ![r].resp = 200,
                          ![r].resolved = resolved]

Resolved(res) == IF res.tag # "ret" THEN "unknown"
                 ELSE IF res.exists THEN "yes" ELSE "no"

\* What the resolver of the configured variant can return for a repository:
\* its URL may or may not have the shape variant A reads.
ResolveResults ==
  {check_ref_and_resolve(HubType, urlOk, env) :
     urlOk \in BOOLEAN, env \in IF HubType = "github" THEN GitEnvs ELSE ResolveEnvs}

\* What download_repo can return for a repository that the resolver accepted:
\* the resolver of variant A has read its URL.
FetchResults ==
  {download_repo(HubType, TRUE, env) : env \in FetchEnvs}

\* POST /scan up to its first await: the capacity test.
scan(r) ==
  /\ Arrives(r)
  /\ http' = IF QueueFull(Len(task_queue))
             THEN Answer(r, "scan", 1, 429, "unknown")
             ELSE Handling(r, "scan", 1)
  /\ UNCHANGED <<settings, drained, pipe, HubType, phase, task_queue, held, worker_tasks, job>>

\* POST /scan after the resolver has answered.
scan_resume(r) ==
  /\ http[r].st = "handling" /\ http[r].kind = "scan"
  /\ \E res \in ResolveResults :
       LET out == scan_after_resolve(res)
       IN IF out.put
          THEN Accept(r, Resolved(res))
          ELSE /\ http' = Answer(r, "scan", 1, out.status, Resolved(res))
               /\ UNCHANGED task_queue
  /\ UNCHANGED <<settings, drained, pipe, HubType, budget, phase, held, worker_tasks, job>>

\* POST /multi_scan of n repositories up to its first await.
multi_scan(r, n) ==
  /\ Arrives(r)
  /\ http' = IF QueueFull(Len(task_queue))
             THEN Answer(r, "multi_scan", n, 429, "unknown")
             ELSE Handling(r, "multi_scan", n)
  /\ UNCHANGED <<settings, drained, pipe, HubType, phase, task_queue, held, worker_tasks, job>>

\* POST /multi_scan after every repository has been resolved.
multi_scan_resume(r) ==
  /\ http[r].st = "handling" /\ http[r].kind = "multi_scan"
  /\ \E out \in {multi_scan_after_resolve(results) :
                    results \in [1..http[r].n -> ResolveResults]} :
       IF out.put
       THEN Accept(r, "yes")
       ELSE /\ http' = Answer(r, "multi_scan", http[r].n, out.status, "no")
            /\ UNCHANGED task_queue
  /\ UNCHANGED <<settings, drained, pipe, HubType, budget, phase, held, worker_tasks, job>>

\* POST /local_scan up to its first await: the capacity test, then the file name.
local_scan(r, nameOk) ==
  /\ Arrives(r)
  /\ http' = IF QueueFull(Len(task_queue))
             THEN Answer(r, "local_scan", 1, 429, "unknown")
             ELSE IF ~nameOk THEN Answer(r, "local_scan", 1, 400, "unknown")
             ELSE Handling(r, "local_scan", 1)
  /\ UNCHANGED <<settings, drained, pipe, HubType, phase, task_queue, held, worker_tasks, job>>

\* POST /local_scan after the upload has been read.
local_scan_resume(r, readOk) ==
  /\ http[r].st = "handling" /\ http[r].kind = "local_scan"
  /\ LET out == local_scan_after_read(readOk)
     IN IF out.put
        THEN Accept(r, "unknown")
        ELSE /\ http' = Answer(r, "local_scan", 1, out.status, "unknown")
             /\ UNCHANGED task_queue
  /\ UNCHANGED <<settings, drained, pipe, HubType, budget, phase, held, worker_tasks, job>>

\* asyncio.Queue.get on a queue that is not empty: the item put first, and the
\* queue without it.
get_newest(q) == [item |-> q[Len(q)], rest |-> SubSeq(q, 1, Len(q) - 1)]
get_nowait(q) == [item |-> Head(q), rest |-> Tail(q)]

\* The dispatchers waiting in task_queue.get(): those that hold no item. A
\* dispatcher does not await the execution it spawns.
awaiting_dispatchers ==
  worker_tasks - Len(held)
    - Cardinality({r \in Req : job[r].pc \notin {"none", "done", "failed", "cancelled"}})
idle_dispatchers == worker_tasks - Len(held)

\* start_worker: a dispatcher waiting in task_queue.get() takes the head item.
start_worker_get ==
  /\ phase # "closed"
  /\ LoopRuns
  /\ idle_dispatchers > 0
  /\ task_queue # <<>>
  /\ held' = Append(held, get_nowait(task_queue).item)
  /\ task_queue' = get_nowait(task_queue).rest
  /\ UNCHANGED <<settings, drained, pipe, HubType, budget, phase, worker_tasks, http, job>>

\* start_worker: the dispatcher that took an item spawns its execution with
\* asyncio.create_task and goes back to the queue without awaiting it.
start_worker_spawn ==
  /\ phase # "closed"
  /\ LoopRuns
  /\ held # <<>>
  /\ job' = [job EXCEPT ![Head(held)] = Spawned(http[Head(held)].n)]
  /\ held' = Tail(held)
  /\ UNCHANGED <<settings, drained, pipe, HubType, budget, phase, task_queue, worker_tasks, http>>

\* A step of the execution of r that leaves it in state ns and in which the
\* environment has failed `cost` times.
JobStep(r, ns, cost) ==
  /\ LoopRuns
  /\ budget.faults >= cost
  /\ budget' = [budget EXCEPT !.faults = @ - cost]
  /\ job' = [job EXCEPT ![r] = ns]
  /\ UNCHANGED <<settings, drained, pipe, HubType, phase, task_queue, held, worker_tasks, http>>

Cost(failed) == IF failed THEN 1 ELSE 0

\* The spawned coroutine runs up to its first await.
job_start(r) ==
  /\ job[r].pc = "spawned"
  /\ \E mk \in MkOutcomes(http[r].kind) :
       JobStep(r, StartItem(job[r], http[r].kind, mk, PoolsUp), Cost(mk # "ok"))

\* The download (the extraction, for a local scan) submitted to the I/O pool ends.
fetch_done(r) ==
  /\ job[r].pc = "fetch"
  /\ \E res \in IF http[r].kind = "local_scan"
                 THEN {extract_zip_file(zipOk) : zipOk \in BOOLEAN}
                 ELSE FetchResults :
       JobStep(r, AfterFetch(job[r], res, PoolsUp),
               Cost(res.tag # "ret" \/ res.path = ""))

\* scan_repo_with_model submitted to the CPU pool ends.
scan_done(r) ==
  /\ job[r].pc = "scan"
  /\ \E out \in ScanOutcomes :
       JobStep(r, AfterScan(job[r], out), Cost(out = "pool_broken" /\ PoolsUp))

\* The POST in flight of a send_callback ends.
post_done(r) ==
  /\ job[r].pc = "post"
  /\ \E step \in
         {LET ns == send_callback(job[r], outcome, http[r].kind, http[r].n, mk, PoolsUp)
              ok == send_callback(job[r], outcome, http[r].kind, http[r].n, "ok", PoolsUp)
          IN [ns |-> ns, cost |-> Cost(outcome # "s200") + Cost(ns # ok)] :
            outcome \in PostOutcomes, mk \in MkOutcomes(http[r].kind)} :
       JobStep(r, step.ns, step.cost)

\* delete_dir submitted to the I/O pool by a finally block ends.
delete_done(r) ==
  /\ job[r].pc = "delete"
  /\ \E mk \in MkOutcomes(http[r].kind) :
       LET ns == AfterDelete(job[r], http[r].kind, http[r].n, mk, PoolsUp)
           ok == AfterDelete(job[r], http[r].kind, http[r].n, "ok", PoolsUp)
       IN JobStep(r, ns, Cost(ns # ok))

\* lifespan after the yield: the server has stopped serving, the dispatcher
\* tasks are cancelled. A dispatcher whose get() has already returned an item
\* keeps it and spawns it.
lifespan_shutdown ==
  /\ phase = "running"
  /\ budget.signals > 0
  /\ \A r \in Req : http[r].st # "handling"
  /\ budget' = [budget EXCEPT !.signals = @ - 1]
  /\ phase' = "stopping"
  /\ worker_tasks' = Len(held)
  /\ UNCHANGED <<settings, drained, pipe, HubType, task_queue, held, http, job>>

\* cleanup_executors is entered: download_executor.shutdown(wait=True,
\* cancel_futures=True) closes the I/O pool and waits for its running jobs.
cleanup_executors ==
  /\ phase = "stopping"
  /\ phase' = "cleaning"
  /\ UNCHANGED <<settings, drained, pipe, HubType, budget, task_queue, held, worker_tasks, http, job>>

\* A job of the I/O pool ends while the shutdown waits; its execution is
\* resumed once the event loop runs again. Nothing bounds the time a download
\* takes (requests.get is called without a timeout).
pool_thread_ends(r) ==
  /\ phase = "cleaning"
  /\ r \in InIOPool \ drained
  /\ drained' = drained \cup {r}
  /\ UNCHANGED <<settings, pipe, HubType, budget, phase, task_queue, held, worker_tasks, http, job>>

\* The shutdown of the I/O pool returns when none of its jobs is running; the
\* CPU pool is shut down without waiting and cleanup_executors returns.
cleanup_returns ==
  /\ phase = "cleaning"
  /\ InIOPool \subseteq drained
  /\ phase' = "pools_down"
  /\ drained' = {}
  /\ UNCHANGED <<settings, pipe, HubType, budget, task_queue, held, worker_tasks, http, job>>

\* The server returns: asyncio.run cancels every task that has not ended and
\* runs the loop until all of them have.
loop_close ==
  /\ phase = "pools_down"
  /\ phase' = "closed"
  /\ worker_tasks' = 0
  /\ \E mk \in MkOutcomes("multi_scan") :
       LET ns == [r \in Req |-> Cancelled(job[r], http[r].kind, http[r].n, mk)]
           ok == [r \in Req |-> Cancelled(job[r], http[r].kind, http[r].n, "ok")]
       IN /\ budget.faults >= Cost(ns # ok)
          /\ budget' = [budget EXCEPT !.faults = @ - Cost(ns # ok)]
          /\ job' = ns
  /\ UNCHANGED <<settings, drained, pipe, HubType, task_queue, held, http>>

Ingress ==
  \/ \E r \in Req : scan(r)
  \/ \E r \in Req : scan_resume(r)
  \/ \E r \in Req, n \in 1..MaxMultiLen : multi_scan(r, n)
  \/ \E r \in Req : multi_scan_resume(r)
  \/ \E r \in Req, nameOk \in BOOLEAN : local_scan(r, nameOk)
  \/ \E r \in Req, readOk \in BOOLEAN : local_scan_resume(r, readOk)

Dispatch ==
  \/ start_worker_get
  \/ start_worker_spawn

Execution ==
  \/ \E r \in Req : job_start(r)
  \/ \E r \in Req : fetch_done(r)
  \/ \E r \in Req : scan_done(r)
  \/ \E r \in Req : post_done(r)
  \/ \E r \in Req : delete_done(r)

Lifecycle ==
  \/ lifespan_shutdown
  \/ cleanup_executors
  \/ \E r \in Req : pool_thread_ends(r)
  \/ cleanup_returns
  \/ loop_close

Next == Ingress \/ Dispatch \/ Execution \/ Lifecycle

Spec == Init /\ [][Next]_vars

\* The event loop runs every task that is ready: a dispatcher whose get() can
\* return an item is resumed, and so is one that holds an item. Nothing is
\* assumed about the executions, the pools or the callback receiver.
FairSpec == Spec /\ WF_vars(start_worker_get) /\ WF_vars(start_worker_spawn)

\* The ingress and the dispatchers alone: an execution never touches the queue.
NextIngress == Ingress \/ Dispatch

IngressSpec == InitIngress /\ [][NextIngress]_vars

\* ------------------------------------------- the functions of a scan alone
\* The functions an execution and a handler call, each applied to every input
\* of its bounded domain; the server itself stands still.
InitCalls ==
  \E hub \in HubTypes :
    Start([hub |-> hub, arrivals |-> 0, faults |-> 0, signals |-> 0])

CallLogged(op, arg, out, log) ==
  /\ pipe' = [op |-> op, arg |-> arg, out |-> out, log |-> log]
  /\ UNCHANGED <<settings, drained, HubType, budget, phase, task_queue, held, worker_tasks, http, job>>

Call(op, arg, out) == CallLogged(op, arg, out, <<>>)

\* search_secrets analyses one file of the scratch directory.
analyze_file ==
  /\ pipe.op = "none"
  /\ \E p \in ScanPaths, rules \in Catalogues, readable \in BOOLEAN :
       \E lines \in IF readable THEN Files ELSE {<<>>} :
         Call("_analyze_file",
              [file_path |-> p.file_path, rules |-> rules, target_dir |-> p.target_dir,
               readable |-> readable, lines |-> lines],
              _analyze_file(p.file_path, rules, p.target_dir, readable, lines))

\* The classifier is applied to the findings of a file.
classify_findings ==
  /\ pipe.op = "_analyze_file"
  /\ \E c \in Classified(pipe.out) :
       CallLogged("filter_secrets_in_process", pipe.out, c.out, c.log)

\* The CPU pool runs scan_repo_with_model on a repository.
scan_repo ==
  /\ pipe.op = "none"
  /\ \E repo \in Repos, ok \in BOOLEAN :
       \E out \in {scan_repo_with_model(repo, [settingsOk |-> ok, clf |-> clf]) :
                     clf \in ClassifierEnvs(scan_directory_without_callback(repo, 1))} :
         Call("scan_repo_with_model", [repo |-> repo, settingsOk |-> ok], out)

\* POST /scan of variant B resolves the ref of its request: the commit of the
\* queue item, which becomes RepoCommit of the callback, is the one resolved.
resolve_ref ==
  /\ pipe.op = "none"
  /\ HubType = "github"
  /\ \E env \in GitListings :
       LET res == check_ref_and_resolve(HubType, TRUE, env)
       IN Call("scan", env, [put |-> scan_after_resolve(res).put, commit |-> res.commit])

\* An archive (downloaded from either platform, or uploaded to /local_scan) is
\* extracted into the scratch directory.
extract_archive ==
  /\ pipe.op = "none"
  /\ \E archive \in SUBSET MemberNames :
       Call("extractall", archive, extractall(archive))

\* send_callback builds the envelope of a payload.
build_envelope ==
  /\ pipe.op = "none"
  /\ \E payload_json \in PayloadTexts :
       Call("send_callback", payload_json, compressed_payload(payload_json))

\* The values the environment variable HubType can hold, in lower case.
HubValues == HubTypes \cup {"gitlab"}

\* download_repo runs in the I/O pool for a repository whose URL the resolver
\* has read, under each value of HubType.
fetch_repo ==
  /\ pipe.op = "none"
  /\ \E hub \in HubValues, env \in FetchEnvs :
       Call("download_repo", [hub |-> hub, env |-> env], download_repo(hub, TRUE, env))

\* The execution of a single scan whose scan+classify stage has returned its
\* findings: process_request_async calls send_callback with the report.
ReportReady ==
  AfterScan([Spawned(1) EXCEPT !.pc = "scan", !.fetch = "path", !.scanned = TRUE,
                               !.items[1].dir = "exists"], "findings")

\* The retry loop of the send_callback of the report, when the receiver meets
\* the successive POSTs with `answers`: the POSTs made, and where the execution
\* stands when that send_callback has returned or raised.
RECURSIVE post_loop(_, _, _)
post_loop(s, answers, made) ==
  IF s.pc = "post" /\ s.ctx = "completed" /\ made < Len(answers)
  THEN post_loop(send_callback(s, answers[made + 1], "scan", 1, "ok", TRUE),
                 answers, made + 1)
  ELSE [posts |-> made, pc |-> s.pc, ctx |-> s.ctx, exc |-> s.exc]

\* send_callback delivers a report to a receiver that answers each POST in
\* one of the ways of PostOutcomes.
deliver_report ==
  /\ pipe.op = "none"
  /\ \E answers \in [1..max_retries -> PostOutcomes] :
       Call("post_loop", answers, post_loop(ReportReady, answers, 0))

\* How _load_or_train_model can go: both files are there and load; the model
\* file or, after it, the vectorizer file does not load; the files are not there
\* and training succeeds, cannot read a dataset, fails while the vectorizer is
\* fitted, or fails when the trained model is saved.
LoadOutcomes ==
  {"loaded", "load_model_raises", "load_vectorizer_raises",
   "trained", "dataset_raises", "vectorize_raises", "dump_raises"}

\* _load_or_train_model and _train_model: the attributes set on the instance
\* when the call returns or raises (model and vectorizer are None on the
\* class).
_load_or_train_model(outcome) ==
  [model |-> outcome \in {"loaded", "load_vectorizer_raises", "trained", "dump_raises"},
   vectorizer |-> outcome \in {"loaded", "trained", "vectorize_raises", "dump_raises"},
   raised |-> outcome \notin {"loaded", "trained"}]

\* SecretClassifier.__new__ on the class whose _instance is `instance`
\* ("none" is written [made |-> FALSE]): the first call stores the new
\* instance in cls._instance before it loads or trains; a later call returns
\* what is stored.
SecretClassifier(instance, outcome) ==
  IF instance.made
  THEN [instance |-> instance, raised |-> FALSE]
  ELSE LET load == _load_or_train_model(outcome)
       IN [instance |-> [made |-> TRUE, model |-> load.model,
                         vectorizer |-> load.vectorizer],
           raised |-> load.raised]

\* get_model_instance (or the construction in filter_secrets_in_process)
\* called once per element of `outcomes` in one process: for each call,
\* whether it raised and the instance it returned.
RECURSIVE get_model_instance(_, _)
get_model_instance(instance, outcomes) ==
  IF outcomes = <<>> THEN <<>>
  ELSE LET call == SecretClassifier(instance, Head(outcomes))
       IN <<call>> \o get_model_instance(call.instance, Tail(outcomes))

\* A process constructs the classifier several times.
construct_classifier ==
  /\ pipe.op = "none"
  /\ \E n \in 1..MaxCalls :
       \E outcomes \in [1..n -> LoadOutcomes] :
         Call("get_model_instance", outcomes,
              get_model_instance([made |-> FALSE, model |-> FALSE, vectorizer |-> FALSE],
                                 outcomes))

\* The names of the repositories of a multi-scan request.
ProjectNames == {"p", "q"}

\* POST /multi_scan validates its repositories, each answered by the resolver
\* of the configured variant, and enqueues.
validate_repositories ==
  /\ pipe.op = "none"
  /\ \E n \in 0..MaxMultiLen :
       \E repositories \in [1..n -> ProjectNames], results \in [1..n -> ResolveResults] :
         Call("multi_scan", [repositories |-> repositories, results |-> results],
              [status |-> multi_scan_status(repositories, results),
               puts |-> multi_scan_puts(repositories, results)])

\* The resolver of variant A is called for a branch, a tag or a commit of a
\* repository with a well-formed URL.
resolve_azure ==
  /\ pipe.op = "none"
  /\ HubType = "azure"
  /\ \E ref_type \in {"branch", "tag", "commit"},
        answers \in [1..Len(auth_methods) -> AzureAnswers] :
       Call("check_ref_and_resolve_azure", [ref_type |-> ref_type, answers |-> answers],
            azure_resolve_loop(ref_type, answers, 1, ""))

NextCalls ==
  \/ analyze_file \/ classify_findings \/ scan_repo \/ resolve_ref
  \/ extract_archive \/ build_envelope \/ fetch_repo \/ deliver_report
  \/ validate_repositories \/ resolve_azure \/ construct_classifier

CallSpec == InitCalls /\ [][NextCalls]_vars

\* ---------------------------------------------------- configuration files
ConfigStep(next) ==
  /\ settings' = next
  /\ UNCHANGED <<drained, pipe, HubType, budget, phase, task_queue, held, worker_tasks,
                 http, job>>

\* update_rules_file, do_update_excluded_files, do_update_excluded_extensions
\* and do_update_fp_file up to the await of the write: content that
\* validate_yaml_structure rejects raises ValueError (answered 400) before the
\* file is touched; aiofiles.open(path, 'w') truncates the file.
update_file_open(f, valid) ==
  /\ settings.writer.pc = "idle"
  /\ settings.updates < MaxUpdates
  /\ IF valid
     THEN ConfigStep([settings EXCEPT
                        !.updates = @ + 1,
                        !.writer = [pc |-> "open", file |-> f, version |-> settings.updates + 1],
                        !.disk[f] = [version |-> settings.updates + 1, lines |-> 0]])
     ELSE ConfigStep(settings)

\* out_file.write(normalized_content) runs in a thread: the buffer of the file
\* object is flushed when it is full, so that a first part of the content is
\* on disk before the rest.
update_file_write ==
  /\ settings.writer.pc = "open"
  /\ \E n \in (settings.disk[settings.writer.file].lines + 1)..(FileLen - 1) :
       ConfigStep([settings EXCEPT !.disk[settings.writer.file].lines = n])

\* The end of the "async with": the file is flushed and closed.
update_file_close ==
  /\ settings.writer.pc = "open"
  /\ ConfigStep([settings EXCEPT !.disk[settings.writer.file].lines = FileLen,
                                 !.writer = NoWriter])

\* scan_repo_without_callback in a worker process: load_rules and
\* load_other_rules open the four files and parse what is there.
load_settings ==
  /\ PoolsUp
  /\ ConfigStep([settings EXCEPT !.loaded = [any |-> TRUE, tick |-> 1 - @.tick,
                                            read |-> settings.disk]])

NextConfig ==
  \/ \E f \in ConfigFiles, valid \in BOOLEAN : update_file_open(f, valid)
  \/ update_file_write
  \/ update_file_close
  \/ load_settings

ConfigSpec == InitCalls /\ [][NextConfig]_vars

\* ------------------------------------------------------------ properties
Range(f) == {f[i] : i \in DOMAIN f}

\* The execution of r has run and has not ended.
InProgress(r) == job[r].pc \in {"fetch", "scan", "post", "delete"}
\* The execution of r has run its first statement.
Started(r) == job[r].pc = "failed" \/ \E i \in DOMAIN job[r].items : job[r].items[i] # NoItem
Ended(r) == job[r].pc \in {"done", "failed", "cancelled"}

\* C1: a request to /scan, /multi_scan or /local_scan that finds the queue at
\* 2 * MAX_WORKERS items or more is answered 429 in the same step, the queue is
\* left as it was, and the request is never queued or executed afterwards.
C1_Theorem ==
  /\ [](\A r \in Req :
          (http[r].st = "answered" /\ http[r].resp = 429)
            => /\ r \notin Range(task_queue) \cup Range(held)
               /\ job[r] = NoJob)
  /\ [][\A r \in Req :
          (http[r].st = "new" /\ http'[r].st # "new"
             /\ Len(task_queue) >= 2 * MAX_WORKERS)
            => /\ http'[r].st = "answered"
               /\ http'[r].resp = 429
               /\ task_queue' = task_queue]_vars

\* A request has been answered 429 while the queue holds 2 * MAX_WORKERS items.
C1_Witness ==
  \E r \in Req :
    /\ http[r].st = "answered" /\ http[r].resp = 429
    /\ http[r].kind \in Kinds
    /\ Len(task_queue) = 2 * MAX_WORKERS

\* C2: a POST /scan whose ref does not resolve is answered 400 by the handler,
\* the queue is left as it was, and the request is never queued or executed
\* (so that no callback is sent for it).
C2_Theorem ==
  /\ [](\A r \in Req :
          (http[r].kind = "scan" /\ http[r].resolved = "no")
            => /\ http[r].st = "answered"
               /\ http[r].resp = 400
               /\ r \notin Range(task_queue) \cup Range(held)
               /\ job[r] = NoJob)
  /\ [][\A r \in Req :
          (http[r].kind = "scan" /\ http[r].st = "handling"
             /\ http'[r].resolved = "no")
            => task_queue' = task_queue]_vars

\* A POST /scan has been rejected on variant B, whose resolver never gives a
\* message, while the service goes on and ends.
C2_Witness ==
  \E r \in Req :
    /\ HubType = "github"
    /\ http[r].kind = "scan" /\ http[r].resolved = "no" /\ http[r].resp = 400
    /\ phase = "closed"

\* C3: the items of a multi-scan are processed one after the other: an item
\* that is not yet the current one is untouched, an item before the current one
\* has had its callback and does not change any more, and the fetch of an item
\* starts only after the scratch directory of every earlier item is removed.
C3_Theorem ==
  /\ [](\A r \in Req :
          http[r].kind = "multi_scan" =>
            \A i \in DOMAIN job[r].items :
              /\ (i > job[r].idx) => (job[r].items[i] = NoItem)
              /\ (i < job[r].idx) => (job[r].items[i].cbs # {})
              /\ (i < job[r].idx /\ (job[r].pc = "fetch" \/ job[r].fetch # "none"))
                   => (job[r].items[i].dir # "exists"))
  /\ [][\A r \in Req :
          \A i \in DOMAIN job[r].items :
            i < job[r].idx => job'[r].items[i] = job[r].items[i]]_vars

\* The second item of a multi-scan is being fetched after the report of the
\* first was sent and its directory removed, while another execution runs.
C3_Witness ==
  \E r \in Req, q \in Req :
    /\ q # r /\ InProgress(q)
    /\ http[r].kind = "multi_scan"
    /\ job[r].idx = 2 /\ job[r].pc = "fetch"
    /\ job[r].items[1] = [dir |-> "removed", cbs |-> {"completed"}]

\* C4: when a multi-scan has ended while the service is running, each of its
\* items has had exactly one callback, an Error stub for an item that failed.
C4_Claim ==
  \A r \in Req :
    (http[r].kind = "multi_scan" /\ job[r].pc = "done" /\ phase = "running")
      => \A i \in DOMAIN job[r].items : Cardinality(job[r].items[i].cbs) = 1

\* C5: at every moment no more than MAX_WORKERS executions are in progress
\* (spawned and not yet ended).
C5_Claim ==
  Cardinality({r \in Req : job[r].pc # "none" /\ ~Ended(r)}) <= MAX_WORKERS

\* C6: of 2 * MAX_WORKERS + 1 valid scan jobs submitted one after the other
\* before any of them completes, the first 2 * MAX_WORKERS are answered 200 and
\* the last one, when it arrives, is answered 429.
C6_Claim ==
  [][\A last \in Req :
       LET first == {r \in Req : r < last}
       IN (/\ last = 2 * MAX_WORKERS + 1
           /\ \A r \in first :
                /\ http[r].kind = "scan" /\ http[r].st = "answered"
                /\ http[r].resp \in {200, 429}
           /\ \A r \in Req : ~Ended(r)
           /\ http[last].st = "new" /\ http'[last].kind = "scan")
            => /\ \A r \in first : http[r].resp = 200
               /\ http'[last].resp = 429]_vars

\* C7: an execution that has started and has ended has made a callback.
C7_Claim ==
  \A r \in Req :
    (Started(r) /\ Ended(r))
      => \E i \in DOMAIN job[r].items : job[r].items[i].cbs # {}

\* C8: a fetch of a repository that fails yields an empty path (it does not
\* raise), the scan stage is not run for the item, and the only callback of the
\* item is the Error stub that carries the message of the fetch.
C8_Claim ==
  \A r \in Req :
    (http[r].kind \in {"scan", "multi_scan"} /\ job[r].fetch \in {"empty", "raise"})
      => /\ job[r].fetch = "empty"
         /\ ~job[r].scanned
         /\ job[r].items[job[r].idx].cbs = {"fetcherr"}

\* C9: when an execution has ended, none of its scratch directories is left.
C9_Claim ==
  \A r \in Req :
    Ended(r) => \A i \in DOMAIN job[r].items : job[r].items[i].dir # "exists"

\* C10: send_callback makes at most max_retries POSTs, makes no POST after one
\* that was answered 200, and returns to its caller without raising when its
\* last POST fails.
C10_Claim ==
  \A r \in Req :
    job[r].pc = "post" =>
      /\ job[r].posts <= max_retries
      /\ LET ns == send_callback(job[r], "s200", http[r].kind, http[r].n, "ok", PoolsUp)
         IN ~(ns.pc = "post" /\ ns.ctx = job[r].ctx /\ ns.posts > job[r].posts)
      /\ (job[r].posts = max_retries /\ job[r].ctx \in {"completed", "fetcherr"})
           => \A outcome \in PostOutcomes \ {"s200"} :
                LET ns == send_callback(job[r], outcome, http[r].kind, http[r].n,
                                        "ok", PoolsUp)
                IN ~(ns.pc = "post" /\ ns.ctx = "except")

\* C11: the scan of a repository that holds at least one file, with the
\* settings files in place, gives a "completed" callback whose FilesScanned is
\* greater than 0.
C11_Claim ==
  (pipe.op = "scan_repo_with_model" /\ pipe.arg.settingsOk /\ Len(pipe.arg.repo) >= 1)
    => LET payload == completed_payload(<<"c">>, pipe.out.results, pipe.out.file_count)
       IN /\ AfterScan(Spawned(1), "findings").ctx = "completed"
          /\ payload.Status = "completed"
          /\ payload.FilesScanned > 0

\* C12: when the body of scan_repo_with_model raises (the settings cannot be
\* loaded, the returned tuple cannot be unpacked, the classifier cannot be
\* called), the function still returns to its caller, which sends the
\* "completed" callback: the results are exactly one finding with path
\* process_error, severity High, type Process Error and the text of the
\* error, and the file count is 0.
C12_Theorem ==
  pipe.op = "scan_repo_with_model" =>
    LET ret == scan_repo_without_callback(pipe.arg.repo, pipe.arg.settingsOk)
        raised == \/ ret.tag = "raise"
                  \/ Len(ret.val) # unpack_names
                  \/ call_args # filter_params
    IN raised =>
         /\ pipe.out.tag = "ret"
         /\ AfterScan(Spawned(1), "process_error").ctx = "completed"
         /\ Len(pipe.out.results) = 1
         /\ DOMAIN pipe.out.results[1] = {"error", "path", "severity", "Type"}
         /\ pipe.out.results[1].path = "process_error"
         /\ pipe.out.results[1].severity = "High"
         /\ pipe.out.results[1].Type = "Process Error"
         /\ pipe.out.results[1].error \in {"settings", "ValueError", "TypeError"}
         /\ pipe.out.file_count = 0
C12_Witness ==
  /\ pipe.op = "scan_repo_with_model"
  /\ Len(pipe.arg.repo) = MaxFiles
  /\ ~pipe.arg.settingsOk
  /\ pipe.out.results = <<process_error("settings")>>

\* C13: every finding handed over for delivery has severity High or
\* Potential, whichever path produced it: the classification loop, a sentinel
\* of the scanner, the fallback of a classifier that raised, or the
\* process_error finding.
Severities == {"High", "Potential"}
C13_Theorem ==
  /\ (pipe.op = "filter_secrets_in_process")
       => (\A i \in DOMAIN pipe.out : pipe.out[i].severity \in Severities)
  /\ (pipe.op = "scan_repo_with_model" /\ pipe.out.tag = "ret")
       => (\A i \in DOMAIN pipe.out.results :
             pipe.out.results[i].severity \in Severities)
C13_Witness ==
  /\ pipe.op = "filter_secrets_in_process"
  /\ \E i, j, k \in DOMAIN pipe.out :
       /\ pipe.arg[i].severity = "" /\ pipe.out[i].severity = "High"
       /\ pipe.arg[j].severity = "" /\ pipe.out[j].severity = "Potential"
       /\ pipe.arg[k].secret.kind = "long"

\* C14: the path of every finding the file scanner emits is relative to the
\* repository: it holds no backslash, does not start with a slash and does
\* not contain the scratch directory.
Contains(str, part) ==
  \E k \in 0..(Len(str) - Len(part)) : SubSeq(str, k + 1, k + Len(part)) = part
C14_Claim ==
  pipe.op = "_analyze_file" =>
    \A i \in DOMAIN pipe.out :
      LET path == pipe.out[i].path
      IN /\ ~Contains(path, <<"\\">>)
         /\ ~startswith(path, <<"/">>)
         /\ ~Contains(path, pipe.arg.target_dir)

\* C15: the commit a scan request is queued with, which the "completed"
\* callback of its execution carries as RepoCommit, is not empty.
C15_Claim ==
  (pipe.op = "scan" /\ pipe.out.put)
    => completed_payload(pipe.out.commit, <<>>, 0).RepoCommit # <<>>

\* C16: the file scanner emits at most max_secrets + 1 findings for a file,
\* whatever the file holds (here for the files none of whose lines is matched
\* by more than one rule).
C16_Claim ==
  (pipe.op = "_analyze_file"
     /\ \A k \in DOMAIN pipe.arg.lines : Cardinality(pipe.arg.lines[k].hits) <= 1)
    => Len(pipe.out) <= max_secrets + 1

\* C17: for every line longer than max_line_length of a scanned file, the
\* output of the file holds exactly one Too Long Line sentinel for that line,
\* of severity Potential, and no finding of a rule for that line, whatever
\* else the file holds (here for the files none of whose lines is matched by
\* more than one rule).
C17_Claim ==
  (pipe.op = "_analyze_file" /\ pipe.arg.readable /\ pipe.arg.rules.bad = {}
     /\ \A k \in DOMAIN pipe.arg.lines : Cardinality(pipe.arg.lines[k].hits) <= 1)
    => \A k \in DOMAIN pipe.arg.lines :
         pipe.arg.lines[k].long =>
           /\ Cardinality({i \in DOMAIN pipe.out :
                             /\ pipe.out[i].Type = "Too Long Line"
                             /\ pipe.out[i].line = k
                             /\ pipe.out[i].severity = "Potential"}) = 1
           /\ \A i \in DOMAIN pipe.out :
                pipe.out[i].line = k => pipe.out[i].secret.kind # "match"

\* C18: with a catalogue whose patterns compile, when the matches found in a
\* file (a rule on a line that is scanned and is not a false positive) are
\* more than max_secrets, the output of the file
\* is exactly one Too Many Secrets sentinel whose secret carries the digest of
\* all of them, and no match is in the output; when they are not more than
\* max_secrets, each match is in the output once and no such sentinel is.
MatchesOf(lines) ==
  {<<k, r>> \in (DOMAIN lines) \X Rules :
     ~lines[k].long /\ ~lines[k].fp /\ r \in lines[k].hits}
C19_Claim ==
  (pipe.op = "_analyze_file" /\ pipe.arg.readable) =>
    \A k \in DOMAIN pipe.arg.lines :
      LET emitted == {i \in DOMAIN pipe.out : pipe.out[i].line = k}
      IN /\ Cardinality(emitted) <= 1
         /\ \A i \in emitted :
              pipe.out[i].secret.kind = "match" =>
                pipe.out[i].Type =
                  message(CHOOSE r \in pipe.arg.lines[k].hits :
                            \A q \in pipe.arg.lines[k].hits : r <= q)

\* C20: classifying a finding whose severity is not empty (a sentinel of the
\* scanner among them) leaves its severity as it was.
C20_Claim ==
  pipe.op = "filter_secrets_in_process" =>
    \A i \in DOMAIN pipe.arg :
      pipe.arg[i].severity # "" => pipe.out[i].severity = pipe.arg[i].severity

\* C21: after a classification in which nothing raised, the confidence of a
\* finding that is not a sentinel is above 0.70 exactly when its severity is
\* High, and a sentinel has severity Potential and confidence 0.50.
C21_Claim ==
  (pipe.op = "filter_secrets_in_process" /\ pipe.log = <<>>) =>
    \A i \in DOMAIN pipe.out :
      IF pipe.out[i].secret.kind = "match"
      THEN (pipe.out[i].confidence > 70) <=> (pipe.out[i].severity = "High")
      ELSE pipe.out[i].severity = "Potential" /\ pipe.out[i].confidence = 50

\* C22: after a classification in which the classifier raised, every finding
\* of the batch has severity High and confidence 1.00.
C22_Claim ==
  (pipe.op = "filter_secrets_in_process" /\ pipe.log # <<>>) =>
    \A i \in DOMAIN pipe.out :
      /\ pipe.out[i].severity = "High"
      /\ "confidence" \in DOMAIN pipe.out[i]
      /\ pipe.out[i].confidence = 100

\* C23: in the tree an extraction leaves, no path lies outside the extraction
\* root, and no file has a basename of the excluded-files set or an extension
\* of the excluded-extensions set.
C23_Claim ==
  pipe.op = "extractall" =>
    \A path \in pipe.out :
      /\ \A k \in DOMAIN path : path[k].stem \notin {"", ".."}
      /\ (path # <<>>) =>
           (/\ path[Len(path)] \notin EXCLUDED_FILES
            /\ path[Len(path)].ext \notin EXCLUDED_EXTENSIONS)

\* C24: the envelope of a callback round-trips: decoding its data from
\* base64 and decompressing gives the UTF-8 bytes of the serialized payload,
\* original_size is the number of those bytes and compressed_size the number
\* of bytes of the compressed data.
C24_Theorem ==
  pipe.op = "send_callback" =>
    LET compressed_data == b64decode(pipe.out.data)
    IN /\ gzip_decompress(compressed_data) = utf8_encode(pipe.arg)
       /\ pipe.out.original_size = Len(utf8_encode(pipe.arg))
       /\ pipe.out.compressed_size = Len(compressed_data)
C24_Witness ==
  /\ pipe.op = "send_callback"
  /\ Len(pipe.arg) = MaxText
  /\ pipe.out.original_size > Len(pipe.arg)
  /\ pipe.out.compressed_size % 3 # 0

\* C25: the download uses the platform variant the resolution uses: variant
\* B when HubType is github, variant A for any other value.
C25_Claim ==
  pipe.op = "download_repo" =>
    LET hub == pipe.arg.hub
        env == pipe.arg.env
    IN IF hub = "github"
       THEN pipe.out = download_github_repo(env)
       ELSE /\ check_ref_and_resolve(hub, TRUE, "found")
                 = check_ref_and_resolve_azure(TRUE, "found")
            /\ pipe.out = download_repo("azure", TRUE, env)

\* C26: when one rule of the catalogue has a pattern that does not compile,
\* the scan of a file still gives what the other rules find: the output is the
\* one of the same file under the catalogue without that rule (here for the
\* files none of whose lines the bad rule would match).
C26_Claim ==
  (pipe.op = "_analyze_file" /\ pipe.arg.readable /\ pipe.arg.rules.bad # {}
     /\ \A k \in DOMAIN pipe.arg.lines :
          pipe.arg.lines[k].hits \cap pipe.arg.rules.bad = {})
    => pipe.out = _analyze_file(pipe.arg.file_path, [bad |-> {}], pipe.arg.target_dir,
                                TRUE, pipe.arg.lines)

\* C27: once the shutdown sequence has reached cleanup_executors it runs to
\* its end whatever the jobs of the pools do: the return of cleanup_executors
\* does not wait for a job of a pool that is still running.
C27_Claim ==
  (phase = "cleaning") => ENABLED cleanup_returns

\* The items put on the queue whose execution is not spawned yet, oldest
\* first: those a dispatcher has taken, then those still on the queue.
Pending == held \o task_queue

\* The position of item r in the sequence q (0 when it is not there).
IndexOf(q, r) == IF \E i \in DOMAIN q : q[i] = r
                 THEN CHOOSE i \in DOMAIN q : q[i] = r
                 ELSE 0

C29_Theorem ==
  /\ \A r \in Req :
       (r \in Range(task_queue)) ~> (job[r].pc = "spawned" \/ phase # "running")
  /\ [](\A r \in Req :
          Cardinality({i \in DOMAIN Pending : Pending[i] = r})
            <= (IF job[r].pc = "none" THEN 1 ELSE 0))
  /\ [][/\ \A r \in Range(Pending) \ Range(Pending') :
             job[r].pc = "none" /\ job'[r].pc = "spawned"
        /\ \A r \in Req :
             (job'[r].pc = "spawned") => (job[r].pc \in {"none", "spawned"})]_vars

\* An execution is spawned while an execution spawned earlier is still in the
\* middle of its work.
C29_Witness ==
  \E a, b \in Req : InProgress(a) /\ job[b].pc = "spawned"

\* C30: in every reachable state the queue holds at most 2 * MAX_WORKERS
\* items, however the handlers of /scan, /multi_scan and /local_scan and the
\* dispatchers interleave.
C30_Claim ==
  Len(task_queue) <= 2 * MAX_WORKERS

\* C31: within a single scan the phases follow one another: the scan runs
\* only after the fetch has returned a path, the report is sent only after the
\* scan+classify stage has run, and the removal of the scratch directory
\* starts only after a send_callback that has returned (accepted, or retries
\* exhausted), never after one that raised.
C31_Claim ==
  \A r \in Req :
    (http[r].kind = "scan") =>
      /\ (job[r].pc = "scan") => (job[r].fetch = "path")
      /\ (job[r].pc = "post" /\ job[r].ctx = "completed") => job[r].scanned
      /\ (job[r].pc = "delete") => (job[r].items[1].cbs # {} /\ ~job[r].exc)

\* C32: for a single scan, an item of a multi-scan and a local scan, at most
\* one logical callback is issued: the call sites of send_callback reached for
\* one item never include both the report and an Error stub, nor two Error
\* stubs.
C32_Claim ==
  \A r \in Req :
    \A i \in DOMAIN job[r].items :
      /\ ("completed" \in job[r].items[i].cbs) => (job[r].items[i].cbs = {"completed"})
      /\ Cardinality(job[r].items[i].cbs) <= 1

\* C33: an attempt of send_callback is followed by another POST exactly when
\* it was answered with a status outside 2xx or ended with a transport error
\* (and an attempt is left); an answer with any 2xx status ends the delivery:
\* send_callback returns and the payload is not POSTed again.
C33_Claim ==
  (pipe.op = "post_loop") =>
    \A k \in 1..pipe.out.posts :
      /\ (pipe.arg[k] \in {"s200", "s2xx"})
           => (pipe.out.posts = k /\ pipe.out.pc = "delete")
      /\ (pipe.arg[k] \in {"sErr", "listed_exc"} /\ k < max_retries)
           => (pipe.out.posts > k)

\* C34: an exception of any type raised by a POST attempt is absorbed inside
\* send_callback: it counts as a failed attempt, the next attempt follows
\* while one is left, and send_callback returns to the worker, which goes on
\* to its finally block.
C34_Claim ==
  (pipe.op = "post_loop") =>
    /\ pipe.out.pc = "delete"
    /\ \A k \in 1..pipe.out.posts :
         (pipe.arg[k] \in {"listed_exc", "other_exc"} /\ k < max_retries)
           => (pipe.out.posts > k)

\* C35: POST /multi_scan puts something on the queue only if every
\* repository resolved, and then exactly one item, whatever the number of
\* repositories, that holds the repositories and their commits in request
\* order; if a repository did not resolve the answer is 400 and nothing is put.
C35_Theorem ==
  (pipe.op = "multi_scan") =>
    LET repositories == pipe.arg.repositories
        results == pipe.arg.results
        all_resolved == \A i \in DOMAIN results :
                          results[i].tag = "ret" /\ results[i].exists
    IN IF all_resolved
       THEN /\ Len(pipe.out.puts) = 1
            /\ pipe.out.puts[1].kind = "multi_scan"
            /\ pipe.out.puts[1].multi_scan_items = repositories
            /\ Len(pipe.out.puts[1].commits) = Len(repositories)
            /\ \A i \in DOMAIN repositories :
                 pipe.out.puts[1].commits[i] = results[i].commit
       ELSE /\ pipe.out.puts = <<>>
            /\ pipe.out.status = 400

\* A multi-scan of two different repositories that resolved to different
\* commits has been put on the queue as one item.
C35_Witness ==
  /\ pipe.op = "multi_scan"
  /\ Len(pipe.arg.repositories) = 2
  /\ pipe.arg.repositories[1] # pipe.arg.repositories[2]
  /\ Len(pipe.out.puts) = 1
  /\ pipe.out.puts[1].commits[1] # pipe.out.puts[1].commits[2]

\* The first auth method whose request is answered with a 2xx status (0 when
\* there is none).
First2xx(answers) ==
  LET ok == {i \in DOMAIN answers : answers[i] \in {"s200_found", "s200_empty", "s203"}}
  IN IF ok = {} THEN 0 ELSE CHOOSE i \in ok : \A j \in ok : i <= j

\* C36: the resolver of variant A tries the auth methods in order; the first
\* one answered 2xx gives the result and is the last one tried; after an
\* answer outside 2xx or a failed attempt the next method is tried, so that
\* without any 2xx answer all three methods have been tried.
C36_Claim ==
  (pipe.op = "check_ref_and_resolve_azure") =>
    LET first == First2xx(pipe.arg.answers)
    IN IF first = 0
       THEN pipe.out.tried = Len(auth_methods) /\ ~pipe.out.exists
       ELSE /\ pipe.out.tried = first
            /\ pipe.out.exists <=> (pipe.arg.answers[first] # "s200_empty")

\* C37: an update of a configuration file made while the service runs does
\* not change what scans use: a scan that starts when no update is being
\* written loads the files as they were at start-up.
C37_Claim ==
  [][(settings'.loaded.tick # settings.loaded.tick /\ settings.writer.pc = "idle")
       => (settings'.loaded.read = StartupDisk)]_vars

\* C38: a scan that loads the configuration files while one of them is being
\* updated reads the whole previous file or the whole new one: no file it has
\* loaded was empty or written in part.
C38_Claim ==
  settings.loaded.any =>
    \A f \in ConfigFiles : Complete(settings.loaded.read[f])

\* C39: every instance that a construction of the classifier returns, the
\* first one of the process or a later one, after a failed attempt or not,
\* has its model and its vectorizer set.
C39_Claim ==
  (pipe.op = "get_model_instance") =>
    \A k \in DOMAIN pipe.out :
      (~pipe.out[k].raised)
        => (pipe.out[k].instance.model /\ pipe.out[k].instance.vectorizer)

\* The name of the ref of a line of git ls-remote: what follows the tab.
RECURSIVE ref_name(_)
ref_name(line) ==
  IF line = <<>> THEN <<>>
  ELSE IF Head(line) = "\t" THEN Tail(line)
  ELSE ref_name(Tail(line))

\* C40: on variant B a branch or tag named ref resolves only if the remote
\* lists a ref of exactly that name in the namespace, and the commit returned
\* is the object id listed for it; a ref whose name only ends in "/" + ref
\* does not supply the result.
C40_Claim ==
  (pipe.op = "scan" /\ pipe.arg.ref_type \in {"branch", "tag"} /\ pipe.out.put)
    => \E k \in DOMAIN pipe.arg.lines :
         /\ ref_name(pipe.arg.lines[k]) = <<"r", "/">> \o pipe.arg.ref
         /\ pipe.out.commit = first_word(pipe.arg.lines[k])

====
